---- MODULE Spec2Model ----
(***************************************************************************)
(* flux-ssl-mgr: CA key custody (IntermediateCA::load, unlock_ca_key),     *)
(* the per-certificate issuance pipeline (process_certificate) and the    *)
(* batch coordinator (batch_process), with the file system they act on.   *)
(***************************************************************************)
EXTENDS Integers, Sequences, FiniteSets, TLC

(* ---------------------------- bounds ----------------------------------- *)
\* largest number of identifiers submitted to one batch
MaxNames == 2
\* largest number of threads of the rayon global pool (machine dependent)
MaxCpus == 2
\* the value of config.batch.max_workers that is explored (the code never reads it)
MaxWorkersCfg == 1

(* ------------------------ program constants ---------------------------- *)
\* config.rs default_private_key_perms: 0o400
PrivateKeyPerms == 256
\* config.rs default_certificate_perms: 0o755
CertificatePerms == 493
\* key.rs unlock_ca_key: perms.set_mode(0o600); also the mode tempfile creates with
TempFileMode == 384
\* mode of a file created by std::fs::write under the usual umask 022: 0o644
CreateMode == 420

NoFile == [mode |-> 0, content |-> "absent"]
NoErr == [kind |-> "none", path |-> <<>>]
NoResult == [successful |-> 0, failed |-> 0, errors |-> <<>>]
NoCall == [fn |-> "none"]
NoResp == [pc |-> "none"]

\* the identifiers: find_csr_files yields distinct file stems, sorted by name
Identifiers == 1..MaxNames

FileKinds == {"work_key", "work_csr", "work_cert_pem", "work_cert_crt",
              "out_cert_pem", "out_cert_crt", "out_key"}
Dirs == {"private", "csr", "certs", "output"}

VARIABLES
    cfg,        \* the Config and call arguments, fixed at the call
    poolThreads,\* threads of the rayon global pool
    certNames,  \* cert_names: Vec<String>
    prior,      \* what an earlier run of the same command left on disk
    pc,         \* position of the calling thread
    ca,         \* the IntermediateCA value: state and _temp_file
    temp_file,  \* unlock_ca_key local: the NamedTempFile it holds (0: none)
    tmpFiles,   \* temporary files existing on disk
    caLoads,    \* number of IntermediateCA::load calls entered
    decrypts,   \* number of decryptions of the CA key
    job,        \* per submitted position: position inside process_certificate, error
    started,    \* per submitted position: number of times process_certificate was entered
    dirs,       \* directories existing on disk
    files,      \* <<kind, name>> -> file on disk
    idx,        \* sequential loop: index of the current name
    successful, \* batch_process local
    failed,     \* batch_process local
    errors,     \* batch_process local
    ret,        \* what the entry point has returned
    req,        \* one call of the signing path or of load_private_key: its arguments
    resp        \* that call: position, locals and returned value

vars == <<cfg, poolThreads, certNames, prior, pc, ca, temp_file, tmpFiles, caLoads, decrypts, job,
          started, dirs, files, idx, successful, failed, errors, ret, req, resp>>

N == Len(certNames)
Positions == 1..N

\* bit 0o200 of a mode: the owner may write
OwnerWritable(mode) == (mode \div 128) % 2 = 1

\* open(O_WRONLY|O_CREAT|O_TRUNC) succeeds on a new file or one the owner may write
CanOpenForWrite(f) == f = NoFile \/ OwnerWritable(f.mode)

\* std::fs::write: creates with CreateMode, or truncates keeping the mode
WriteFile(f, content) ==
    IF f = NoFile THEN [mode |-> CreateMode, content |-> content]
    ELSE [mode |-> f.mode, content |-> content]

\* std::fs::copy: content of the source, and the source's permission bits
CopyFile(src) == [mode |-> src.mode, content |-> src.content]

\* the files process_certificate leaves for one identifier when it returns Ok(()):
\* written by std::fs::write, copied by std::fs::copy, then the permission policy
CompleteRunFile(kind, password_protect) ==
    LET key == [mode |-> PrivateKeyPerms,
                content |-> IF password_protect THEN "key_encrypted" ELSE "key_plain"]
    IN CASE kind = "work_key" -> key
         [] kind = "out_key" -> CopyFile(key)
         [] kind = "work_csr" -> WriteFile(NoFile, "csr")
         [] kind \in {"work_cert_pem", "work_cert_crt"} -> WriteFile(NoFile, "cert")
         [] kind \in {"out_cert_pem", "out_cert_crt"} ->
              [CopyFile(WriteFile(NoFile, "cert")) EXCEPT !.mode = CertificatePerms]

\* the disk before the run: empty, or as a complete earlier run of the same command left it
InitialFiles ==
    [k \in FileKinds \X Identifiers |->
        IF prior = "complete" /\ k[2] <= Len(certNames)
           THEN CompleteRunFile(k[1], cfg.password_protect)
           ELSE NoFile]
InitialDirs == IF prior = "complete" /\ Len(certNames) > 0 THEN Dirs ELSE {}

Terminal(p) == p \in {"ok", "failed"}
Running(i) == job[i].pc \notin {"idle", "ok", "failed", "panicked"}
RunningCount == Cardinality({i \in Positions : Running(i)})

Init ==
    /\ cfg \in [entry : {"batch", "single"},
                parallel : BOOLEAN,
                max_workers : {MaxWorkersCfg},
                password_protect : BOOLEAN,
                ca_key_encrypted : BOOLEAN]
    /\ poolThreads \in 1..MaxCpus
    /\ certNames \in {[i \in 1..n |-> i] : n \in 0..MaxNames}
    /\ prior \in {"none", "complete"}
    \* handle_single issues one certificate and reads nothing of config.batch
    /\ cfg.entry = "single" =>
          Len(certNames) = 1 /\ ~cfg.parallel /\ poolThreads = 1
    /\ pc = "load_cert"
    /\ ca = [state |-> "none", temp |-> 0]
    /\ temp_file = 0
    /\ tmpFiles = {}
    /\ caLoads = 0
    /\ decrypts = 0
    /\ job = [i \in 1..Len(certNames) |-> [pc |-> "idle", err |-> NoErr]]
    /\ started = [i \in 1..Len(certNames) |-> 0]
    /\ dirs = InitialDirs
    /\ files = InitialFiles
    /\ idx = 1
    /\ successful = 0
    /\ failed = 0
    /\ errors = <<>>
    /\ ret = [tag |-> "none", err |-> NoErr, result |-> NoResult]
    /\ req = NoCall
    /\ resp = NoResp

jobVars == <<job, started, dirs, files>>
batchVars == <<idx, successful, failed, errors>>
constVars == <<cfg, poolThreads, certNames, prior, req, resp>>

(* ------------------- CertificateAuthority: load ------------------------ *)

\* Drop of a NamedTempFile: the file is removed from disk
DropTempFile(id) == {t \in tmpFiles : t.id # id}

\* variant: a load failure is reported as a batch in which every item failed
ReturnErr_C5(e) ==
    /\ pc' = "done"
    /\ ret' = [tag |-> "Ok", err |-> e,
               result |-> [successful |-> 0, failed |-> N, errors |-> <<>>]]

\* an Err leaves the entry point through `?`: batch.rs:200, main.rs:220
ReturnErr(e) ==
    /\ pc' = "done"
    /\ ret' = [tag |-> "Err", err |-> e, result |-> NoResult]

\* variant: the temporary file is kept on disk when a later step of load fails
LoadFail_C10(e) ==
    /\ ReturnErr(e)
    /\ temp_file' = 0
    /\ UNCHANGED <<ca, decrypts, tmpFiles>>

\* a failing step of load: unlock_ca_key's local temp_file is dropped on the way out
LoadFail(e) ==
    /\ ReturnErr(e)
    /\ tmpFiles' = DropTempFile(temp_file)
    /\ temp_file' = 0
    /\ UNCHANGED <<ca, decrypts>>

\* Ok(Self { key, cert, _temp_file }) reaches the caller
LoadOk(temp) ==
    /\ ca' = [state |-> "loaded", temp |-> temp]
    /\ temp_file' = 0
    /\ pc' = IF cfg.entry = "batch" THEN "dispatch" ELSE "single"
    /\ UNCHANGED ret

\* variant: the key is decrypted before the certificate is read
LoadCert_C30 ==
    /\ pc = "load_cert"
    /\ caLoads' = caLoads + 1
    /\ \E outcome \in {"ok", "read_fail", "parse_fail"} :
         CASE outcome = "ok" ->
                /\ pc' = "is_key_encrypted"
                /\ UNCHANGED <<ca, temp_file, tmpFiles, decrypts, ret>>
           [] outcome = "read_fail" ->
                /\ ReturnErr([kind |-> "FileReadFailed", path |-> <<"ca_cert">>])
                /\ decrypts' = decrypts + 1
                /\ UNCHANGED <<ca, temp_file, tmpFiles>>
           [] outcome = "parse_fail" ->
                /\ ReturnErr([kind |-> "CertParseError", path |-> <<>>])
                /\ decrypts' = decrypts + 1
                /\ UNCHANGED <<ca, temp_file, tmpFiles>>
    /\ UNCHANGED <<constVars, jobVars, batchVars>>

\* load_cert(&config.ca_cert_path)
LoadCert ==
    /\ pc = "load_cert"
    /\ caLoads' = caLoads + 1
    /\ \E outcome \in {"ok", "read_fail", "parse_fail"} :
         CASE outcome = "ok" ->
                /\ pc' = "is_key_encrypted"
                /\ UNCHANGED <<ca, temp_file, tmpFiles, decrypts, ret>>
           [] outcome = "read_fail" ->
                LoadFail([kind |-> "FileReadFailed", path |-> <<"ca_cert">>])
           [] outcome = "parse_fail" ->
                LoadFail([kind |-> "CertParseError", path |-> <<>>])
    /\ UNCHANGED <<constVars, jobVars, batchVars>>

\* variant: every CA key is taken through the prompt and the unlock, marker or not
IsKeyEncrypted_C29 ==
    /\ pc = "is_key_encrypted"
    /\ \E outcome \in {"ok", "read_fail"} :
         CASE outcome = "ok" ->
                /\ pc' = "ca_prompt"
                /\ UNCHANGED <<ca, temp_file, tmpFiles, decrypts, ret>>
           [] outcome = "read_fail" ->
                LoadFail([kind |-> "FileReadFailed", path |-> <<"ca_key">>])
    /\ UNCHANGED <<constVars, caLoads, jobVars, batchVars>>

\* is_key_encrypted(&config.ca_key_path) and the branch on it
IsKeyEncrypted ==
    /\ pc = "is_key_encrypted"
    /\ \E outcome \in {"ok", "read_fail"} :
         CASE outcome = "ok" ->
                /\ pc' = IF cfg.ca_key_encrypted THEN "ca_prompt" ELSE "load_plain_key"
                /\ UNCHANGED <<ca, temp_file, tmpFiles, decrypts, ret>>
           [] outcome = "read_fail" ->
                LoadFail([kind |-> "FileReadFailed", path |-> <<"ca_key">>])
    /\ UNCHANGED <<constVars, caLoads, jobVars, batchVars>>

\* Password::new().with_prompt(..).interact(): the caller waits for the operator
CaPrompt ==
    /\ pc = "ca_prompt"
    /\ \E outcome \in {"ok", "interact_fail"} :
         CASE outcome = "ok" ->
                /\ pc' = "unlock_load_key"
                /\ UNCHANGED <<ca, temp_file, tmpFiles, decrypts, ret>>
           [] outcome = "interact_fail" ->
                LoadFail([kind |-> "InteractiveError", path |-> <<>>])
    /\ UNCHANGED <<constVars, caLoads, jobVars, batchVars>>

\* unlock_ca_key: load_private_key(&key_path, Some(password))
UnlockLoadKey ==
    /\ pc = "unlock_load_key"
    /\ \E outcome \in {"ok", "read_fail", "wrong_password"} :
         CASE outcome = "ok" ->
                /\ pc' = "unlock_tempfile"
                /\ decrypts' = decrypts + 1
                /\ UNCHANGED <<ca, temp_file, tmpFiles, ret>>
           [] outcome = "read_fail" ->
                LoadFail([kind |-> "FileReadFailed", path |-> <<"ca_key">>])
           [] outcome = "wrong_password" ->
                LoadFail([kind |-> "OpenSslError", path |-> <<>>])
    /\ UNCHANGED <<constVars, caLoads, jobVars, batchVars>>

\* a temporary file created like any other file, with the mode std::fs::write gives
UnlockTempFile_C24 ==
    /\ pc = "unlock_tempfile"
    /\ \E outcome \in {"ok", "create_fail"} :
         CASE outcome = "ok" ->
                LET id == Cardinality(tmpFiles) + 1 IN
                /\ tmpFiles' = tmpFiles \cup {[id |-> id, mode |-> CreateMode, content |-> "empty"]}
                /\ temp_file' = id
                /\ pc' = "unlock_write"
                /\ UNCHANGED <<ca, decrypts, ret>>
           [] outcome = "create_fail" ->
                LoadFail([kind |-> "IoError", path |-> <<>>])
    /\ UNCHANGED <<constVars, caLoads, jobVars, batchVars>>

\* unlock_ca_key: tempfile::NamedTempFile::new()
UnlockTempFile ==
    /\ pc = "unlock_tempfile"
    /\ \E outcome \in {"ok", "create_fail"} :
         CASE outcome = "ok" ->
                LET id == Cardinality(tmpFiles) + 1 IN
                /\ tmpFiles' = tmpFiles \cup {[id |-> id, mode |-> TempFileMode, content |-> "empty"]}
                /\ temp_file' = id
                /\ pc' = "unlock_write"
                /\ UNCHANGED <<ca, decrypts, ret>>
           [] outcome = "create_fail" ->
                LoadFail([kind |-> "IoError", path |-> <<>>])
    /\ UNCHANGED <<constVars, caLoads, jobVars, batchVars>>

\* unlock_ca_key: private_key_to_pem_pkcs8()? and std::fs::write(temp_file.path(), ..)
UnlockWrite ==
    /\ pc = "unlock_write"
    /\ \E outcome \in {"ok", "pem_fail", "write_fail"} :
         CASE outcome = "ok" ->
                /\ tmpFiles' = {IF t.id = temp_file THEN [t EXCEPT !.content = "ca_key_plain"] ELSE t
                                 : t \in tmpFiles}
                /\ pc' = "unlock_chmod"
                /\ UNCHANGED <<ca, temp_file, decrypts, ret>>
           [] outcome = "pem_fail" ->
                LoadFail([kind |-> "OpenSslError", path |-> <<>>])
           [] outcome = "write_fail" ->
                LoadFail([kind |-> "FileWriteFailed", path |-> <<"tmp", temp_file>>])
    /\ UNCHANGED <<constVars, caLoads, jobVars, batchVars>>

\* unlock_ca_key: metadata()?, set_mode(0o600), set_permissions()?, Ok((key, temp_file));
\* then load builds Self with _temp_file: Some(temp)
UnlockChmod ==
    /\ pc = "unlock_chmod"
    /\ \E outcome \in {"ok", "chmod_fail"} :
         CASE outcome = "ok" ->
                /\ tmpFiles' = {IF t.id = temp_file THEN [t EXCEPT !.mode = TempFileMode] ELSE t
                                 : t \in tmpFiles}
                /\ LoadOk(temp_file)
                /\ UNCHANGED decrypts
           [] outcome = "chmod_fail" ->
                LoadFail([kind |-> "IoError", path |-> <<>>])
    /\ UNCHANGED <<constVars, caLoads, jobVars, batchVars>>

\* load: load_private_key(&config.ca_key_path, None), then Self with _temp_file: None
LoadPlainKey ==
    /\ pc = "load_plain_key"
    /\ \E outcome \in {"ok", "read_fail", "parse_fail"} :
         CASE outcome = "ok" ->
                /\ LoadOk(0)
                /\ UNCHANGED <<tmpFiles, decrypts>>
           [] outcome = "read_fail" ->
                LoadFail([kind |-> "FileReadFailed", path |-> <<"ca_key">>])
           [] outcome = "parse_fail" ->
                LoadFail([kind |-> "CaKeyUnlockFailed", path |-> <<>>])
    /\ UNCHANGED <<constVars, caLoads, jobVars, batchVars>>

(* ------------------- IssuanceJob: process_certificate ------------------ *)

At(i, step) == job[i].pc = step
JobGoto(i, next) == job' = [job EXCEPT ![i].pc = next]
JobFail(i, e) == job' = [job EXCEPT ![i] = [pc |-> "failed", err |-> e]]
JobFrame == UNCHANGED <<constVars, pc, ca, temp_file, tmpFiles, caLoads, decrypts,
                        started, batchVars, ret>>

IoError == [kind |-> "IoError", path |-> <<>>]
FileWriteFailed(path) == [kind |-> "FileWriteFailed", path |-> path]

\* std::fs::create_dir_all(dir)?  : an existing directory is success
CreateDirAll(i, step, dir, next) ==
    /\ At(i, step)
    /\ \E ok \in BOOLEAN :
         IF ok THEN /\ dirs' = dirs \cup {dir}
                    /\ JobGoto(i, next)
               ELSE /\ JobFail(i, IoError)
                    /\ UNCHANGED dirs
    /\ UNCHANGED files
    /\ JobFrame

MkdirPrivate(i) == CreateDirAll(i, "mkdir_private", "private", "mkdir_csr")
MkdirCsr(i) == CreateDirAll(i, "mkdir_csr", "csr", "mkdir_certs")
MkdirCerts(i) == CreateDirAll(i, "mkdir_certs", "certs", "mkdir_output")
MkdirOutput(i) ==
    CreateDirAll(i, "mkdir_output", "output",
                 IF cfg.password_protect THEN "prompt" ELSE "genkey")

\* Password::new()...with_confirmation(..).interact(): the job waits for the operator
Prompt(i) ==
    /\ At(i, "prompt")
    /\ \E ok \in BOOLEAN :
         IF ok THEN JobGoto(i, "genkey")
               ELSE JobFail(i, [kind |-> "InteractiveError", path |-> <<>>])
    /\ UNCHANGED <<dirs, files>>
    /\ JobFrame

\* a step that touches memory only: generate_rsa_key, create_csr, sign_csr
Compute(i, step, errKind, next) ==
    /\ At(i, step)
    /\ \E ok \in BOOLEAN :
         IF ok THEN JobGoto(i, next)
               ELSE JobFail(i, [kind |-> errKind, path |-> <<>>])
    /\ UNCHANGED <<dirs, files>>
    /\ JobFrame

GenerateKey(i) == Compute(i, "genkey", "KeyGenerationFailed", "save_key")

\* variant: a failed write rolls the job back by removing its working key
SaveFile_C13(i, step, kind, content, pemErr, next) ==
    LET path == <<kind, certNames[i]>> IN
    /\ At(i, step)
    /\ \E outcome \in {"ok", "pem_fail", "write_fail"} :
         CASE outcome = "ok" ->
                /\ CanOpenForWrite(files[path])
                /\ files' = [files EXCEPT ![path] = WriteFile(@, content)]
                /\ JobGoto(i, next)
           [] outcome = "pem_fail" ->
                /\ JobFail(i, [kind |-> pemErr, path |-> <<>>])
                /\ UNCHANGED files
           [] outcome = "write_fail" ->
                /\ JobFail(i, FileWriteFailed(path))
                /\ files' = [files EXCEPT ![<<"work_key", certNames[i]>>] = NoFile]
    /\ UNCHANGED dirs
    /\ JobFrame

\* to-PEM conversion, then std::fs::write(path, pem) mapped to FileWriteFailed(path, ..):
\* save_private_key, save_csr, save_cert_pem
SaveFile(i, step, kind, content, pemErr, next) ==
    LET path == <<kind, certNames[i]>> IN
    /\ At(i, step)
    /\ \E outcome \in {"ok", "pem_fail", "write_fail"} :
         CASE outcome = "ok" ->
                /\ CanOpenForWrite(files[path])
                /\ files' = [files EXCEPT ![path] = WriteFile(@, content)]
                /\ JobGoto(i, next)
           [] outcome = "pem_fail" ->
                /\ JobFail(i, [kind |-> pemErr, path |-> <<>>])
                /\ UNCHANGED files
           [] outcome = "write_fail" ->
                /\ JobFail(i, FileWriteFailed(path))
                /\ UNCHANGED files
    /\ UNCHANGED dirs
    /\ JobFrame

\* variant: the key is written without encryption whatever was asked
SavePrivateKey_C21(i) ==
    SaveFile(i, "save_key", "work_key", "key_plain", "OpenSslError", "chmod_key")

\* save_private_key(&key, &key_path, password.as_deref()): PKCS#8 PEM, encrypted with
\* AES-256-CBC when a password was given
SavePrivateKey(i) ==
    SaveFile(i, "save_key", "work_key",
             IF cfg.password_protect THEN "key_encrypted" ELSE "key_plain",
             "OpenSslError", "chmod_key")

\* metadata(path)?.permissions(); set_mode(mode); set_permissions(path, perms)?
SetPermissions(i, step, kind, mode, next) ==
    LET path == <<kind, certNames[i]>> IN
    /\ At(i, step)
    /\ \E ok \in BOOLEAN :
         IF ok /\ files[path] # NoFile
            THEN /\ files' = [files EXCEPT ![path].mode = mode]
                 /\ JobGoto(i, next)
            ELSE /\ JobFail(i, IoError)
                 /\ UNCHANGED files
    /\ UNCHANGED dirs
    /\ JobFrame

\* variant: the working key keeps the mode it was created with
ChmodKey_C12(i) == Compute(i, "chmod_key", "IoError", "create_csr")

ChmodKey(i) == SetPermissions(i, "chmod_key", "work_key", PrivateKeyPerms, "create_csr")

CreateCsr(i) == Compute(i, "create_csr", "CsrGenerationFailed", "save_csr")
SaveCsr(i) == SaveFile(i, "save_csr", "work_csr", "csr", "CsrGenerationFailed", "sign")
\* variant: the signing step takes the key from the CA's temporary file and removes it
SignCsr_C11(i) ==
    /\ At(i, "sign")
    /\ JobGoto(i, "save_cert_pem")
    /\ tmpFiles' = DropTempFile(ca.temp)
    /\ UNCHANGED <<constVars, pc, ca, temp_file, caLoads, decrypts, started, dirs, files,
                   batchVars, ret>>

\* variant: the signing step loads the CA again for its own item
SignCsr_C4(i) ==
    /\ At(i, "sign")
    /\ JobGoto(i, "save_cert_pem")
    /\ caLoads' = caLoads + 1
    /\ decrypts' = decrypts + (IF cfg.ca_key_encrypted THEN 1 ELSE 0)
    /\ tmpFiles' = IF cfg.ca_key_encrypted
                      THEN tmpFiles \cup {[id |-> Cardinality(tmpFiles) + 1,
                                            mode |-> TempFileMode, content |-> "ca_key_plain"]}
                      ELSE tmpFiles
    /\ UNCHANGED <<constVars, pc, ca, temp_file, started, dirs, files, batchVars, ret>>

SignCsr(i) == Compute(i, "sign", "CertSigningFailed", "save_cert_pem")
SaveCertPem(i) ==
    SaveFile(i, "save_cert_pem", "work_cert_pem", "cert", "CertSigningFailed", "save_cert_crt")
SaveCertCrt(i) ==
    SaveFile(i, "save_cert_crt", "work_cert_crt", "cert", "CertSigningFailed", "copy_cert_pem")

\* std::fs::copy(from, to)?
Copy(i, step, from, to, next) ==
    LET src == <<from, certNames[i]>>
        dst == <<to, certNames[i]>> IN
    /\ At(i, step)
    /\ \E ok \in BOOLEAN :
         IF ok /\ files[src] # NoFile /\ CanOpenForWrite(files[dst])
            THEN /\ files' = [files EXCEPT ![dst] = CopyFile(files[src])]
                 /\ JobGoto(i, next)
            ELSE /\ JobFail(i, IoError)
                 /\ UNCHANGED files
    /\ UNCHANGED dirs
    /\ JobFrame

CopyCertPem(i) == Copy(i, "copy_cert_pem", "work_cert_pem", "out_cert_pem", "copy_cert_crt")
CopyCertCrt(i) == Copy(i, "copy_cert_crt", "work_cert_crt", "out_cert_crt", "copy_key")
\* variant: the published key's file name does not contain the identifier, so every job
\* copies its key to the path of the first one
CopyKey_C27(i) ==
    LET src == <<"work_key", certNames[i]>>
        dst == <<"out_key", certNames[1]>> IN
    /\ At(i, "copy_key")
    /\ \E ok \in BOOLEAN :
         IF ok /\ files[src] # NoFile /\ CanOpenForWrite(files[dst])
            THEN /\ files' = [files EXCEPT ![dst] = CopyFile(files[src])]
                 /\ JobGoto(i, "chmod_out_cert_pem")
            ELSE /\ JobFail(i, IoError)
                 /\ UNCHANGED files
    /\ UNCHANGED dirs
    /\ JobFrame
CopyKey(i) == Copy(i, "copy_key", "work_key", "out_key", "chmod_out_cert_pem")

\* variant: the published certificate keeps the mode the copy gave it
ChmodOutCertPem_C15(i) == Compute(i, "chmod_out_cert_pem", "IoError", "chmod_out_cert_crt")

ChmodOutCertPem(i) ==
    SetPermissions(i, "chmod_out_cert_pem", "out_cert_pem", CertificatePerms, "chmod_out_cert_crt")
ChmodOutCertCrt(i) ==
    SetPermissions(i, "chmod_out_cert_crt", "out_cert_crt", CertificatePerms, "chmod_out_key")
\* the last step: Ok(()) follows it
ChmodOutKey(i) == SetPermissions(i, "chmod_out_key", "out_key", PrivateKeyPerms, "ok")

\* process_certificate is entered for the name at position i
EnterJob(i) ==
    /\ job' = [job EXCEPT ![i].pc = "mkdir_private"]
    /\ started' = [started EXCEPT ![i] = @ + 1]

(* ------------------- BatchCoordinator: batch_process ------------------- *)

\* e.to_string(): the Display text of a FluxError, its kind and the path it carries
to_string(e) == <<e.kind, e.path>>

\* variant: the CA keeps only the path of the temporary file, nothing removes it
DropCA_C9 ==
    /\ ca' = [state |-> "dropped", temp |-> 0]
    /\ UNCHANGED tmpFiles

\* Drop for IntermediateCA, then of its field _temp_file: Option<NamedTempFile>
DropCA ==
    /\ ca' = [state |-> "dropped", temp |-> 0]
    /\ tmpFiles' = DropTempFile(ca.temp)

\* variant: the branch looks at config.batch.parallel only
Dispatch_C28 ==
    /\ pc = "dispatch"
    /\ pc' = IF cfg.parallel THEN "par" ELSE "seq"
    /\ UNCHANGED <<constVars, ca, temp_file, tmpFiles, caLoads, decrypts, jobVars,
                   batchVars, ret>>

\* let mut successful = 0; ...; if config.batch.parallel && cert_names.len() > 1
Dispatch ==
    /\ pc = "dispatch"
    /\ pc' = IF cfg.parallel /\ N > 1 THEN "par" ELSE "seq"
    /\ UNCHANGED <<constVars, ca, temp_file, tmpFiles, caLoads, decrypts, jobVars,
                   batchVars, ret>>

\* for name in &cert_names { .. process_certificate(name, ..) : the call
SeqStart ==
    /\ pc = "seq"
    /\ idx <= N
    /\ job[idx].pc = "idle"
    /\ EnterJob(idx)
    /\ UNCHANGED <<constVars, pc, ca, temp_file, tmpFiles, caLoads, decrypts, dirs, files,
                   batchVars, ret>>

\* variant: a failed item is counted but not entered in the error list
SeqRecord_C2 ==
    /\ pc = "seq"
    /\ idx <= N
    /\ Terminal(job[idx].pc)
    /\ IF job[idx].pc = "ok"
          THEN /\ successful' = successful + 1
               /\ UNCHANGED <<failed, errors>>
          ELSE /\ failed' = failed + 1
               /\ UNCHANGED <<successful, errors>>
    /\ idx' = idx + 1
    /\ UNCHANGED <<constVars, pc, ca, temp_file, tmpFiles, caLoads, decrypts, jobVars, ret>>

\* variant: a failed item is propagated with `?` and ends the batch
SeqRecord_C8 ==
    /\ pc = "seq"
    /\ idx <= N
    /\ Terminal(job[idx].pc)
    /\ IF job[idx].pc = "ok"
          THEN /\ successful' = successful + 1
               /\ idx' = idx + 1
               /\ UNCHANGED <<pc, ret, ca, tmpFiles>>
          ELSE /\ ret' = [tag |-> "Err", err |-> job[idx].err, result |-> NoResult]
               /\ pc' = "done"
               /\ ca' = [state |-> "dropped", temp |-> 0]
               /\ tmpFiles' = DropTempFile(ca.temp)
               /\ UNCHANGED <<successful, idx>>
    /\ UNCHANGED <<constVars, temp_file, caLoads, decrypts, jobVars, failed, errors>>

\* variant: the loop breaks at the first failed item
SeqRecord_C3 ==
    /\ pc = "seq"
    /\ idx <= N
    /\ Terminal(job[idx].pc)
    /\ IF job[idx].pc = "ok"
          THEN /\ successful' = successful + 1
               /\ idx' = idx + 1
               /\ UNCHANGED <<failed, errors>>
          ELSE /\ failed' = failed + 1
               /\ errors' = Append(errors, [name |-> certNames[idx],
                                            message |-> to_string(job[idx].err)])
               /\ idx' = N + 1
               /\ UNCHANGED successful
    /\ UNCHANGED <<constVars, pc, ca, temp_file, tmpFiles, caLoads, decrypts, jobVars, ret>>

\* the match on what process_certificate returned, and the next iteration
SeqRecord ==
    /\ pc = "seq"
    /\ idx <= N
    /\ Terminal(job[idx].pc)
    /\ IF job[idx].pc = "ok"
          THEN /\ successful' = successful + 1
               /\ UNCHANGED <<failed, errors>>
          ELSE /\ failed' = failed + 1
               /\ errors' = Append(errors, [name |-> certNames[idx],
                                            message |-> to_string(job[idx].err)])
               /\ UNCHANGED successful
    /\ idx' = idx + 1
    /\ UNCHANGED <<constVars, pc, ca, temp_file, tmpFiles, caLoads, decrypts, jobVars, ret>>

\* cert_names.par_iter().map(|name| ..): a pool thread takes the item at position i
ParStart(i) ==
    /\ pc = "par"
    /\ job[i].pc = "idle"
    /\ RunningCount < poolThreads
    /\ EnterJob(i)
    /\ UNCHANGED <<constVars, pc, ca, temp_file, tmpFiles, caLoads, decrypts, dirs, files,
                   batchVars, ret>>

\* the closure's value for position i: Ok(name) or Err((name, e.to_string()))
MapResult(i) ==
    IF job[i].pc = "ok"
       THEN [tag |-> "Ok", name |-> certNames[i], message |-> <<>>]
       ELSE [tag |-> "Err", name |-> certNames[i], message |-> to_string(job[i].err)]

\* variant: the Err arm records the error without counting it
RECURSIVE FoldResults_C1(_, _)
FoldResults_C1(results, acc) ==
    IF results = <<>> THEN acc
    ELSE LET r == Head(results) IN
         FoldResults_C1(Tail(results),
            IF r.tag = "Ok"
               THEN [acc EXCEPT !.successful = @ + 1]
               ELSE [acc EXCEPT !.errors = Append(@, [name |-> r.name, message |-> r.message])])

\* for result in results { match result { Ok(_) => successful += 1, Err(..) => .. } }
RECURSIVE FoldResults(_, _)
FoldResults(results, acc) ==
    IF results = <<>> THEN acc
    ELSE LET r == Head(results) IN
         FoldResults(Tail(results),
            IF r.tag = "Ok"
               THEN [acc EXCEPT !.successful = @ + 1]
               ELSE [acc EXCEPT !.failed = @ + 1,
                                !.errors = Append(@, [name |-> r.name, message |-> r.message])])

\* variant: the results are gathered last position first instead of in input order
ParCollect_C26 ==
    /\ pc = "par"
    /\ \A i \in Positions : Terminal(job[i].pc)
    /\ LET results == [i \in Positions |-> MapResult(N + 1 - i)]
           acc == FoldResults(results, [successful |-> successful, failed |-> failed,
                                        errors |-> errors]) IN
         /\ successful' = acc.successful
         /\ failed' = acc.failed
         /\ errors' = acc.errors
    /\ pc' = "collected"
    /\ UNCHANGED <<constVars, ca, temp_file, tmpFiles, caLoads, decrypts, jobVars, idx, ret>>

\* .collect() into a Vec in input order once every item is mapped, then the loop over it
ParCollect ==
    /\ pc = "par"
    /\ \A i \in Positions : Terminal(job[i].pc)
    /\ LET results == [i \in Positions |-> MapResult(i)]
           acc == FoldResults(results, [successful |-> successful, failed |-> failed,
                                        errors |-> errors]) IN
         /\ successful' = acc.successful
         /\ failed' = acc.failed
         /\ errors' = acc.errors
    /\ pc' = "collected"
    /\ UNCHANGED <<constVars, ca, temp_file, tmpFiles, caLoads, decrypts, jobVars, idx, ret>>

\* Ok(BatchResult { successful, failed, errors }); ca goes out of scope
Return ==
    /\ \/ pc = "seq" /\ idx = N + 1
       \/ pc = "collected"
    /\ ret' = [tag |-> "Ok", err |-> NoErr,
               result |-> [successful |-> successful, failed |-> failed, errors |-> errors]]
    /\ pc' = "done"
    /\ DropCA
    /\ UNCHANGED <<constVars, temp_file, caLoads, decrypts, jobVars, batchVars>>

(* ------------------- single issuance: handle_single -------------------- *)

\* batch::process_certificate(&cert_name, ..) : the call
SingleStart ==
    /\ pc = "single"
    /\ job[1].pc = "idle"
    /\ EnterJob(1)
    /\ UNCHANGED <<constVars, pc, ca, temp_file, tmpFiles, caLoads, decrypts, dirs, files,
                   batchVars, ret>>

\* `?` on the job's result, or Ok(()) at the end; ca goes out of scope either way
SingleReturn ==
    /\ pc = "single"
    /\ Terminal(job[1].pc)
    /\ ret' = IF job[1].pc = "ok"
                 THEN [tag |-> "Ok", err |-> NoErr, result |-> NoResult]
                 ELSE [tag |-> "Err", err |-> job[1].err, result |-> NoResult]
    /\ pc' = "done"
    /\ DropCA
    /\ UNCHANGED <<constVars, temp_file, caLoads, decrypts, jobVars, batchVars>>

Next ==
    \/ LoadCert
    \/ IsKeyEncrypted
    \/ CaPrompt
    \/ UnlockLoadKey
    \/ UnlockTempFile
    \/ UnlockWrite
    \/ UnlockChmod
    \/ LoadPlainKey
    \/ Dispatch
    \/ SeqStart
    \/ SeqRecord
    \/ \E i \in Positions : ParStart(i)
    \/ ParCollect
    \/ Return
    \/ SingleStart
    \/ SingleReturn
    \/ \E i \in Positions : MkdirPrivate(i)
    \/ \E i \in Positions : MkdirCsr(i)
    \/ \E i \in Positions : MkdirCerts(i)
    \/ \E i \in Positions : MkdirOutput(i)
    \/ \E i \in Positions : Prompt(i)
    \/ \E i \in Positions : GenerateKey(i)
    \/ \E i \in Positions : SavePrivateKey(i)
    \/ \E i \in Positions : ChmodKey(i)
    \/ \E i \in Positions : CreateCsr(i)
    \/ \E i \in Positions : SaveCsr(i)
    \/ \E i \in Positions : SignCsr(i)
    \/ \E i \in Positions : SaveCertPem(i)
    \/ \E i \in Positions : SaveCertCrt(i)
    \/ \E i \in Positions : CopyCertPem(i)
    \/ \E i \in Positions : CopyCertCrt(i)
    \/ \E i \in Positions : CopyKey(i)
    \/ \E i \in Positions : ChmodOutCertPem(i)
    \/ \E i \in Positions : ChmodOutCertCrt(i)
    \/ \E i \in Positions : ChmodOutKey(i)

Spec == Init /\ [][Next]_vars

(* ------------------- unwinding out of a job ---------------------------- *)

\* a panic inside process_certificate (raised by a callee) at any of its steps
Panic(i) ==
    /\ Running(i)
    /\ job' = [job EXCEPT ![i].pc = "panicked"]
    /\ UNCHANGED <<dirs, files>>
    /\ JobFrame

\* the panic unwinds through the entry point once no borrowed job is still running
\* (rayon resumes it on the caller after the in-flight closures ended): ca is dropped
Unwind ==
    /\ pc \in {"seq", "par", "single"}
    /\ \E i \in Positions : job[i].pc = "panicked"
    /\ RunningCount = 0
    /\ ret' = [tag |-> "Panic", err |-> NoErr, result |-> NoResult]
    /\ pc' = "done"
    /\ DropCA
    /\ UNCHANGED <<constVars, temp_file, caLoads, decrypts, jobVars, batchVars>>

UnwindNext ==
    \/ Next
    \/ \E i \in Positions : Panic(i)
    \/ Unwind

UnwindSpec == Init /\ [][UnwindNext]_vars

\* threads keep running: an enabled step is eventually taken
FairSpec == Spec /\ WF_vars(Next)
(* =========================== properties ================================ *)

BatchOk == cfg.entry = "batch" /\ ret.tag = "Ok"
FailedPositions == {i \in Positions : job[i].pc = "failed"}
NoFilesOnDisk == files = InitialFiles

\* C1: whenever batch_process returns Ok, in either mode and whatever items failed,
\* result.successful + result.failed is the number of submitted identifiers.
C1_CountsAddUp ==
    BatchOk => ret.result.successful + ret.result.failed = N

\* a parallel batch of two has returned with one success and one failure
C1_Witness ==
    /\ BatchOk /\ cfg.parallel /\ N = 2
    /\ ret.result.successful = 1 /\ ret.result.failed = 1

\* C2: in the returned BatchResult the errors list has exactly one (identifier, message)
\* entry per failed job, carrying that job's error text, and none for a succeeded job:
\* its length is `failed` and its names are exactly the failed identifiers.
C2_ErrorsAreTheFailures ==
    BatchOk =>
      LET errs == ret.result.errors IN
      /\ Len(errs) = ret.result.failed
      /\ Len(errs) = Cardinality(FailedPositions)
      /\ {errs[k].name : k \in 1..Len(errs)} = {certNames[i] : i \in FailedPositions}
      /\ \A i \in FailedPositions :
            Cardinality({k \in 1..Len(errs) :
                           errs[k] = [name |-> certNames[i],
                                      message |-> to_string(job[i].err)]}) = 1
      /\ \A i \in Positions :
            job[i].pc = "ok" => \A k \in 1..Len(errs) : errs[k].name # certNames[i]

\* a sequential batch of two has returned: the first item failed, the second succeeded
C2_Witness ==
    /\ BatchOk /\ ~cfg.parallel /\ N = 2
    /\ job[1].pc = "failed" /\ job[2].pc = "ok"
    /\ Len(ret.result.errors) = 1

\* C3: every submitted position's job is entered exactly once and reaches its own success
\* or failure before the batch returns, whatever the other jobs did; a finished job's
\* outcome is never changed afterwards, and no step of another job touches its files.
C3_Isolation ==
    /\ [](\A i \in Positions : started[i] <= 1 /\ (started[i] = 0 <=> job[i].pc = "idle"))
    /\ [](BatchOk => \A i \in Positions : started[i] = 1 /\ Terminal(job[i].pc))
    /\ [][\A i \in Positions :
            /\ Terminal(job[i].pc) => job'[i] = job[i]
            /\ job'[i] = job[i] =>
                  \A k \in FileKinds : files'[<<k, certNames[i]>>] = files[<<k, certNames[i]>>]
         ]_vars

\* a sequential batch has returned in which the first job failed while creating its
\* directories and the later job still ran to success
C3_Witness ==
    /\ BatchOk /\ ~cfg.parallel /\ N = 2
    /\ job[1].pc = "failed" /\ job[1].err = IoError /\ dirs = Dirs
    /\ job[2].pc = "ok" /\ files[<<"work_key", certNames[1]>>] = NoFile

\* C4: in a batch the CA is loaded once, before any job is entered, the key is decrypted
\* at most once, and at most one decrypted temporary file exists at any time.
C4_LoadedOnce ==
    cfg.entry = "batch" =>
      /\ caLoads <= 1
      /\ decrypts <= 1
      /\ Cardinality(tmpFiles) <= 1
      /\ \A i \in Positions : started[i] > 0 => caLoads = 1 /\ ca.state # "none"

\* an encrypted-key batch of two has signed for both items and returned
C4_Witness ==
    /\ BatchOk /\ cfg.ca_key_encrypted /\ N = 2
    /\ \A i \in Positions : job[i].pc = "ok"
    /\ caLoads = 1 /\ decrypts = 1

\* C5: when the CA load fails, batch_process has returned that Err at once: no job was
\* entered, no directory or file was created or changed, and no BatchResult exists.
C5_LoadFailureIsFatal ==
    (cfg.entry = "batch" /\ ca.state = "none") =>
      /\ \A i \in Positions : started[i] = 0 /\ job[i].pc = "idle"
      /\ NoFilesOnDisk /\ dirs = InitialDirs
      /\ successful = 0 /\ failed = 0 /\ errors = <<>>
      /\ pc = "done" => ret.tag = "Err" /\ ret.err # NoErr /\ ret.result = NoResult

\* a batch of two has ended on a wrong CA passphrase
C5_Witness ==
    /\ cfg.entry = "batch" /\ N = 2 /\ pc = "done" /\ ca.state = "none"
    /\ ret.tag = "Err" /\ ret.err.kind = "OpenSslError" /\ decrypts = 0
\* C6: in parallel mode no job is ever waiting at an interactive prompt: every passphrase
\* was collected before the pool started, also when password_protect is set.
C6_NoPromptInPool ==
    pc = "par" => \A i \in Positions : job[i].pc # "prompt"

\* C7: in parallel mode the number of jobs running at the same time never exceeds
\* config.batch.max_workers.
C7_WorkersBounded ==
    pc = "par" => RunningCount <= cfg.max_workers

\* C8: once the CA has loaded, batch_process never returns Err and, every step
\* terminating, always ends by returning Ok(BatchResult) with every item run to its end,
\* also when every item fails.
C8_BatchAlwaysFinishes ==
    /\ []((cfg.entry = "batch" /\ ca.state # "none") => ret.tag # "Err")
    /\ [](BatchOk => \A i \in Positions : Terminal(job[i].pc))
    /\ (cfg.entry = "batch" /\ ca.state = "loaded") ~> (pc = "done" /\ BatchOk)

\* a sequential batch of two in which every item failed has returned Ok with failed = 2
C8_Witness ==
    /\ BatchOk /\ ~cfg.parallel /\ N = 2 /\ pc = "done"
    /\ ret.result.failed = 2 /\ ret.result.successful = 0

\* C9: once a CA that was loaded from an encrypted key has been destroyed, no temporary
\* key file is left on disk, and the CA is destroyed on every way out of the entry point:
\* normal return, early return on an error, unwinding.
C9_NoTempAfterDrop ==
    /\ ca.state = "dropped" => tmpFiles = {}
    /\ (pc = "done" /\ ca.state # "none") => ca.state = "dropped"

\* a CA loaded from an encrypted key was destroyed by unwinding out of a job
C9_Witness ==
    /\ cfg.ca_key_encrypted /\ ca.state = "dropped" /\ decrypts = 1
    /\ ret.tag = "Panic" /\ tmpFiles = {}

\* C10: when a failing step of the CA load has returned its error to the caller, no
\* temporary key file is left on disk.
C10_NoTempAfterFailedLoad ==
    (pc = "done" /\ ca.state = "none") => (ret.tag = "Err" /\ tmpFiles = {} /\ temp_file = 0)

\* the load failed on writing the key into the temporary file it had just created
C10_Witness ==
    /\ pc = "done" /\ ca.state = "none" /\ decrypts = 1
    /\ ret.tag = "Err" /\ ret.err = FileWriteFailed(<<"tmp", 1>>)
(* ---- the pipeline of one job, in program order ---- *)
StepOrder == <<"mkdir_private", "mkdir_csr", "mkdir_certs", "mkdir_output", "prompt",
               "genkey", "save_key", "chmod_key", "create_csr", "save_csr", "sign",
               "save_cert_pem", "save_cert_crt", "copy_cert_pem", "copy_cert_crt", "copy_key",
               "chmod_out_cert_pem", "chmod_out_cert_crt", "chmod_out_key">>
StepIndex(step) == CHOOSE k \in 1..Len(StepOrder) : StepOrder[k] = step
\* the step that creates each file
WriterStep(kind) ==
    CASE kind = "work_key" -> "save_key"
      [] kind = "work_csr" -> "save_csr"
      [] kind = "work_cert_pem" -> "save_cert_pem"
      [] kind = "work_cert_crt" -> "save_cert_crt"
      [] kind = "out_cert_pem" -> "copy_cert_pem"
      [] kind = "out_cert_crt" -> "copy_cert_crt"
      [] kind = "out_key" -> "copy_key"
FileOf(kind, i) == files[<<kind, certNames[i]>>]
KeyContents == {"key_plain", "key_encrypted"}

\* C11: no step of an issuance job changes the CertificateAuthority or touches its
\* temporary file: whenever a job is entered or moves, the CA value, the temporary files
\* on disk and the load and decryption counts are what they were.
C11_JobsLeaveTheCAAlone ==
    [][job' # job =>
         /\ ca' = ca
         /\ tmpFiles' = tmpFiles
         /\ temp_file' = temp_file
         /\ caLoads' = caLoads
         /\ decrypts' = decrypts]_vars

\* a job has signed with a CA that was unlocked from an encrypted key: the temporary
\* file is still there
C11_Witness ==
    /\ \E i \in Positions : job[i].pc = "save_cert_pem"
    /\ ca.state = "loaded" /\ ca.temp # 0
    /\ \E t \in tmpFiles : t.id = ca.temp /\ t.content = "ca_key_plain"

\* C12: a job that has reached the CSR, the signing or any later step has its working key
\* on disk with the configured private-key mode; and, on a disk that was empty before the
\* run, no CSR or certificate file of an identifier exists unless that key does.
C12_KeyRestrictedFirst ==
    \A i \in Positions :
      LET key == FileOf("work_key", i)
          restricted == key.content \in KeyContents /\ key.mode = PrivateKeyPerms IN
      /\ (job[i].pc = "ok"
            \/ (Running(i) /\ StepIndex(job[i].pc) >= StepIndex("create_csr"))) => restricted
      /\ (prior = "none" /\ \E k \in FileKinds \ {"work_key"} : FileOf(k, i) # NoFile)
            => restricted

\* the CSR of a job has just been written on a fresh disk, the key before it is 0400
C12_Witness ==
    \E i \in Positions :
      /\ prior = "none" /\ job[i].pc = "sign"
      /\ FileOf("work_csr", i).content = "csr"
      /\ FileOf("work_key", i).mode = PrivateKeyPerms

\* C13: the first failing step ends its job: the failing step changes nothing on disk,
\* a failed job never moves again and its files are never touched again; the files of
\* the steps before some step of the pipeline are on disk, those of that step and of
\* the later ones are as they were before the run.
C13_FirstFailureAborts ==
    /\ [](\A i \in Positions : job[i].pc = "failed" =>
            \E s \in 1..Len(StepOrder) : \A k \in FileKinds :
              IF StepIndex(WriterStep(k)) < s
                 THEN FileOf(k, i) # NoFile
                 ELSE FileOf(k, i) = InitialFiles[<<k, certNames[i]>>])
    /\ [][\A i \in Positions :
            /\ (job[i].pc # "failed" /\ job'[i].pc = "failed") =>
                  files' = files /\ dirs' = dirs
            /\ job[i].pc = "failed" =>
                  /\ job'[i] = job[i]
                  /\ \A k \in FileKinds :
                        files'[<<k, certNames[i]>>] = files[<<k, certNames[i]>>]
            /\ dirs \subseteq dirs'
         ]_vars

\* a job failed while copying its key: the working files and both published
\* certificates are still on disk, no published key exists
C13_Witness ==
    \E i \in Positions :
      /\ prior = "none" /\ job[i].pc = "failed" /\ job[i].err = IoError
      /\ FileOf("out_cert_crt", i) # NoFile /\ FileOf("work_key", i) # NoFile
      /\ FileOf("out_key", i) = NoFile

\* C14: on a re-run over the files of an earlier run, every step that writes or copies
\* finds a target it can overwrite.
C14_RerunOverwrites ==
    \A i \in Positions : \A k \in FileKinds :
      job[i].pc = WriterStep(k) => CanOpenForWrite(FileOf(k, i))

\* C15: when process_certificate has returned Ok, the working key and the published key
\* have exactly the private-key mode and both published certificates exactly the
\* certificate mode.
C15_PublishedModes ==
    \A i \in Positions :
      job[i].pc = "ok" =>
        /\ FileOf("work_key", i).mode = PrivateKeyPerms
        /\ FileOf("out_key", i).mode = PrivateKeyPerms
        /\ FileOf("out_key", i).content \in KeyContents
        /\ FileOf("out_cert_pem", i).mode = CertificatePerms
        /\ FileOf("out_cert_crt", i).mode = CertificatePerms
        /\ FileOf("out_cert_pem", i).content = "cert"
        /\ FileOf("out_cert_crt", i).content = "cert"

\* two jobs of a parallel batch have both returned Ok on a fresh disk
C15_Witness ==
    /\ prior = "none" /\ cfg.parallel /\ N = 2
    /\ \A i \in Positions : job[i].pc = "ok"
    /\ FileOf("work_cert_pem", 1).mode = CreateMode

(* ======= the signing path and the key loader, one call at a time ======= *)

\* largest validity_days that is explored
MaxDays == 2
\* largest number of seconds the clock advances between the two reads in sign_csr
MaxTick == 1

Keys == {"k1", "k2"}
Subjects == {"host1", "host2"}
CaSubject == "Flux Intermediate CA"
Serials == {"s1", "s2"}

Some(x) == [some |-> TRUE, val |-> x]
NoDays == [some |-> FALSE, val |-> 0]

\* X509Req: subject, public key, and whether its signature verifies under that key
Csrs == [subject : Subjects, pubkey : Keys, sig_ok : BOOLEAN]
NoCsr == [subject |-> "none", pubkey |-> "none", sig_ok |-> FALSE]
\* the uploaded file: PEM of some request, or bytes that are none
CsrFiles ==
    {[pem_ok |-> TRUE, csr |-> c] : c \in Csrs} \cup {[pem_ok |-> FALSE, csr |-> NoCsr]}
\* the validity_days form field: not sent, sent with text that is no u32, or a number
FormDays ==
    {[kind |-> "absent", val |-> 0], [kind |-> "garbage", val |-> 0]}
      \cup {[kind |-> "number", val |-> d] : d \in 0..MaxDays}

\* a point in time: whole days and seconds after the moment sign_csr was entered
Asn1Time(days, secs) == [days |-> days, secs |-> secs]
\* the seconds part stays below one day
Before(a, b) == a.days < b.days \/ (a.days = b.days /\ a.secs < b.secs)

NoCert == [serial |-> "none", subject |-> "none", issuer |-> "none", pubkey |-> "none",
           not_before |-> Asn1Time(0, 0), not_after |-> Asn1Time(0, 0),
           signed_by |-> "none"]
NoCA == [cert |-> [subject |-> "none", pubkey |-> "none"], key |-> "none"]
NoOut == [tag |-> "none", cert |-> NoCert, key |-> "none", err |-> "none"]
OkCert(c) == [tag |-> "Ok", cert |-> c, key |-> "none", err |-> "none"]
OkKey(k) == [tag |-> "Ok", cert |-> NoCert, key |-> k, err |-> "none"]
Err(kind) == [tag |-> "Err", cert |-> NoCert, key |-> "none", err |-> kind]

\* Asn1Time::days_from_now(days), read when the clock shows `clock`
days_from_now(days, clock) == Asn1Time(days, clock)

\* variant: the certificate carries the CA's own public key
sign_csr_C18(csr, ca_cert, ca_key, days, tick, serial, lib_ok) ==
    IF ~lib_ok THEN Err("CertSigningFailed")
    ELSE OkCert([serial |-> serial,
                 subject |-> csr.subject,
                 issuer |-> ca_cert.subject,
                 pubkey |-> ca_cert.pubkey,
                 not_before |-> days_from_now(0, 0),
                 not_after |-> days_from_now(days, tick),
                 signed_by |-> ca_key])

\* sign_csr: serial, subject and public key of the request, issuer of the CA
\* certificate, the two clock reads, signature by ca_key; any library error on the
\* way is CertSigningFailed
sign_csr(csr, ca_cert, ca_key, days, tick, serial, lib_ok) ==
    IF ~lib_ok THEN Err("CertSigningFailed")
    ELSE OkCert([serial |-> serial,
                 subject |-> csr.subject,
                 issuer |-> ca_cert.subject,
                 pubkey |-> csr.pubkey,
                 not_before |-> days_from_now(0, 0),
                 not_after |-> days_from_now(days, tick),
                 signed_by |-> ca_key])

\* create_csr: subject CN = cert_name, public key of `key`, signed with `key`
create_csr(cert_name, key) == [subject |-> cert_name, pubkey |-> key, sig_ok |-> TRUE]

\* csr_from_pem_bytes: the request the PEM holds, or a parse error
csr_from_pem_bytes(file) == IF file.pem_ok THEN file.csr ELSE NoCsr

\* load_private_key(path, password)
load_private_key(bytes, password, readable) ==
    IF ~readable THEN Err("FileReadFailed")
    ELSE IF password # "none"
         THEN IF bytes = "plain" \/ (bytes = "encrypted" /\ password = "right")
                 THEN OkKey("k1")
                 ELSE Err("OpenSslError")
         ELSE IF bytes = "plain" THEN OkKey("k1") ELSE Err("CaKeyUnlockFailed")

(* ---- SanEntry: strings are sequences of characters ---- *)

\* largest number of characters of a SAN value that is explored
MaxValueLen == 2
\* largest number of tokens of a comma-joined list that is explored
MaxTokens == 2

LowerCase == <<"a", "d", "e", "i", "l", "m", "n", "p", "r", "s", "u">>
UpperCase == <<"A", "D", "E", "I", "L", "M", "N", "P", "R", "S", "U">>
\* char::to_uppercase and to_lowercase on the characters that occur
ToUpperChar(c) ==
    IF \E k \in 1..Len(LowerCase) : LowerCase[k] = c
       THEN UpperCase[CHOOSE k \in 1..Len(LowerCase) : LowerCase[k] = c]
       ELSE c
ToLowerChar(c) ==
    IF \E k \in 1..Len(UpperCase) : UpperCase[k] = c
       THEN LowerCase[CHOOSE k \in 1..Len(UpperCase) : UpperCase[k] = c]
       ELSE c
\* str::to_uppercase
to_uppercase(str) == [k \in 1..Len(str) |-> ToUpperChar(str[k])]

\* index of the first occurrence of c in str, 0 when there is none
Find(str, c) ==
    IF \E k \in 1..Len(str) : str[k] = c
       THEN CHOOSE k \in 1..Len(str) : str[k] = c /\ \A j \in 1..(k - 1) : str[j] # c
       ELSE 0

\* s.splitn(2, ':').collect(): the whole string, or what is before and after the first ':'
splitn2(str) ==
    LET at == Find(str, ":") IN
    IF at = 0 THEN <<str>>
    ELSE <<SubSeq(str, 1, at - 1), SubSeq(str, at + 1, Len(str))>>

\* s.split(','): the pieces between the commas, an empty string giving one empty piece
RECURSIVE split(_)
split(str) ==
    LET at == Find(str, ",") IN
    IF at = 0 THEN <<str>>
    ELSE <<SubSeq(str, 1, at - 1)>> \o split(SubSeq(str, at + 1, Len(str)))

\* str::trim: white space removed at both ends
RECURSIVE trim(_)
trim(str) ==
    IF str # <<>> /\ Head(str) = " " THEN trim(Tail(str))
    ELSE IF str # <<>> /\ str[Len(str)] = " " THEN trim(SubSeq(str, 1, Len(str) - 1))
    ELSE str

NoSan == [tag |-> "none", entries |-> <<>>, err |-> <<>>]
SanOk(variant, value) ==
    [tag |-> "Ok", entries |-> <<[variant |-> variant, value |-> value]>>, err |-> <<>>]
InvalidSanFormat(text) == [tag |-> "Err", entries |-> <<>>, err |-> text]

\* SanEntry::parse falling back to a DNS entry when the kind is not one of the three
parse_C22(str) ==
    LET parts == splitn2(str) IN
    IF Len(parts) # 2 THEN InvalidSanFormat(str)
    ELSE LET san_type == to_uppercase(parts[1])
             value == parts[2] IN
         CASE san_type = <<"I", "P">> -> SanOk("Ip", value)
           [] san_type = <<"E", "M", "A", "I", "L">> -> SanOk("Email", value)
           [] OTHER -> SanOk("Dns", value)

\* SanEntry::parse
parse(str) ==
    LET parts == splitn2(str) IN
    IF Len(parts) # 2 THEN InvalidSanFormat(str)
    ELSE LET san_type == to_uppercase(parts[1])
             value == parts[2] IN
         CASE san_type = <<"D", "N", "S">> -> SanOk("Dns", value)
           [] san_type = <<"I", "P">> -> SanOk("Ip", value)
           [] san_type = <<"E", "M", "A", "I", "L">> -> SanOk("Email", value)
           [] OTHER -> InvalidSanFormat(san_type)

\* Iterator::collect into Result<Vec<_>, _>: every Ok value in order, or the first Err
RECURSIVE collect(_)
collect(results) ==
    IF results = <<>> THEN [tag |-> "Ok", entries |-> <<>>, err |-> <<>>]
    ELSE IF Head(results).tag = "Err" THEN Head(results)
    ELSE LET rest == collect(Tail(results)) IN
         IF rest.tag = "Err" THEN rest
         ELSE [rest EXCEPT !.entries = Head(results).entries \o @]

\* SanEntry::parse_multiple
parse_multiple(str) ==
    LET pieces == split(str) IN
    collect([k \in 1..Len(pieces) |-> parse(trim(pieces[k]))])

BlankReq == [fn |-> "none", path |-> "none", cfg_days |-> 0, cli_days |-> NoDays,
             form_days |-> [kind |-> "absent", val |-> 0],
             csr_file |-> [pem_ok |-> FALSE, csr |-> NoCsr],
             csr_arg |-> NoCsr, days_arg |-> 0,
             name |-> "host1", gen_key |-> "k1",
             ca_cert |-> [subject |-> CaSubject, pubkey |-> "k1"], ca_key |-> "k1",
             bytes |-> "plain", password |-> "none", readable |-> TRUE,
             text |-> <<>>, tokens |-> <<>>]

\* the CA certificate and key files as configured: any certificate with any key
WithCA(r) ==
    {[r EXCEPT !.ca_cert = [subject |-> CaSubject, pubkey |-> ck], !.ca_key = k] :
        ck \in Keys, k \in Keys}

\* flux-ssl-mgr batch: validity from the configuration
BatchRequests ==
    UNION {WithCA([BlankReq EXCEPT !.fn = "issue", !.path = "batch", !.cfg_days = d,
                                   !.name = n, !.gen_key = k]) :
             d \in 0..MaxDays, n \in Subjects, k \in Keys}

\* flux-ssl-mgr single [--days D]
SingleRequests ==
    UNION {WithCA([BlankReq EXCEPT !.fn = "issue", !.path = "single", !.cfg_days = d,
                                   !.cli_days = c, !.name = n, !.gen_key = k]) :
             d \in 0..MaxDays, c \in {NoDays} \cup {Some(x) : x \in 0..MaxDays},
             n \in Subjects, k \in Keys}

\* POST of a CSR file with an optional validity_days field
UploadRequests ==
    UNION {WithCA([BlankReq EXCEPT !.fn = "issue", !.path = "upload", !.cfg_days = d,
                                   !.form_days = f, !.csr_file = u]) :
             d \in 0..MaxDays, f \in FormDays, u \in CsrFiles}

\* a caller of the library function sign_csr with any request, CA pair and days
DirectRequests ==
    UNION {WithCA([BlankReq EXCEPT !.fn = "issue", !.path = "direct", !.csr_arg = c,
                                   !.days_arg = d]) :
             c \in Csrs, d \in 0..MaxDays}

\* load_private_key on any file content with any password argument
KeyRequests ==
    {[BlankReq EXCEPT !.fn = "load_private_key", !.bytes = b, !.password = pw,
                      !.readable = r] :
        b \in {"plain", "encrypted", "garbage"}, pw \in {"none", "right", "wrong"},
        r \in BOOLEAN}

\* every spelling of a word in upper and lower case
Casings(word) ==
    {[k \in 1..Len(word) |-> IF up[k] THEN word[k] ELSE ToLowerChar(word[k])] :
        up \in [1..Len(word) -> BOOLEAN]}
\* the kinds a caller may write before the ':': the three known ones in every casing,
\* and some that are none of them
SanKindTexts ==
    Casings(<<"D", "N", "S">>) \cup Casings(<<"I", "P">>)
      \cup Casings(<<"E", "M", "A", "I", "L">>) \cup Casings(<<"U", "R", "I">>)
      \cup {<<>>, <<"D", "N">>, <<"D", "N", "S", "S">>, <<" ", "I", "P">>, <<"I", "P", " ">>}
ValueChars == {"a", "A", ":", ",", " "}
SanValues == UNION {[1..n -> ValueChars] : n \in 0..MaxValueLen}

\* SanEntry::parse on kind ':' value, and on a text without ':'
SanRequests ==
    {[BlankReq EXCEPT !.fn = "SanEntry::parse", !.text = k \o <<":">> \o v] :
        k \in SanKindTexts, v \in SanValues}
      \cup {[BlankReq EXCEPT !.fn = "SanEntry::parse", !.text = k] : k \in SanKindTexts}

\* tokens a caller joins with ',': valid ones, one without ':', one of an unknown kind,
\* and valid ones with a space before or after
SanTokens ==
    {<<"D", "N", "S", ":", "a">>, <<"i", "p", ":", "A">>, <<"E", "m", "a", "i", "l", ":", "a", ":">>,
     <<"a">>, <<"U", "R", "I", ":", "a">>,
     <<" ", "I", "P", ":", "a">>, <<"D", "N", "S", ":", "a", " ">>}

\* the tokens joined with ','
RECURSIVE Join(_)
Join(tokens) ==
    IF tokens = <<>> THEN <<>>
    ELSE IF Len(tokens) = 1 THEN tokens[1]
    ELSE tokens[1] \o <<",">> \o Join(Tail(tokens))

\* SanEntry::parse_multiple on a comma-joined list of tokens
SanListRequests ==
    {[BlankReq EXCEPT !.fn = "SanEntry::parse_multiple", !.tokens = t, !.text = Join(t)] :
        t \in UNION {[1..n -> SanTokens] : n \in 0..MaxTokens}}

EntryResp == [pc |-> "entry", days |-> 0, csr |-> NoCsr, ca |-> NoCA, out |-> NoOut,
              san |-> NoSan]

CallInit ==
    /\ req \in BatchRequests \cup SingleRequests \cup UploadRequests \cup DirectRequests
                 \cup KeyRequests \cup SanRequests \cup SanListRequests
    /\ resp = EntryResp
    /\ cfg = [entry |-> "batch", parallel |-> FALSE, max_workers |-> MaxWorkersCfg,
              password_protect |-> FALSE, ca_key_encrypted |-> FALSE]
    /\ poolThreads = 1
    /\ certNames = <<>>
    /\ prior = "none"
    /\ pc = "call"
    /\ ca = [state |-> "none", temp |-> 0]
    /\ temp_file = 0
    /\ tmpFiles = {}
    /\ caLoads = 0
    /\ decrypts = 0
    /\ job = <<>>
    /\ started = <<>>
    /\ dirs = {}
    /\ files = [k \in FileKinds \X Identifiers |-> NoFile]
    /\ idx = 1
    /\ successful = 0
    /\ failed = 0
    /\ errors = <<>>
    /\ ret = [tag |-> "none", err |-> NoErr, result |-> NoResult]

mainVars == <<cfg, poolThreads, certNames, prior, pc, ca, temp_file, tmpFiles, caLoads,
              decrypts, job, started, dirs, files, idx, successful, failed, errors, ret>>

Issuing(path, at) == req.fn = "issue" /\ req.path = path /\ resp.pc = at

\* batch_process: the validity is config.defaults.cert_days as configured
BatchDays ==
    /\ Issuing("batch", "entry")
    /\ resp' = [resp EXCEPT !.days = req.cfg_days, !.pc = "load_ca"]
    /\ UNCHANGED <<mainVars, req>>

\* handle_single: --days overrides config.defaults.cert_days
SingleDays ==
    /\ Issuing("single", "entry")
    /\ resp' = [resp EXCEPT !.days = IF req.cli_days.some THEN req.cli_days.val
                                     ELSE req.cfg_days,
                            !.pc = "load_ca"]
    /\ UNCHANGED <<mainVars, req>>

\* handle_csr_upload: validity_days starts as the configured default and is replaced
\* by the form field, text.parse().unwrap_or(config.defaults.cert_days)
UploadForm ==
    /\ Issuing("upload", "entry")
    /\ resp' = [resp EXCEPT !.days = IF req.form_days.kind = "number"
                                        THEN req.form_days.val
                                        ELSE req.cfg_days,
                            !.pc = "parse_csr"]
    /\ UNCHANGED <<mainVars, req>>

\* handle_csr_upload: the uploaded bytes are parsed, a parse error ends the request
UploadParseCsr ==
    /\ Issuing("upload", "parse_csr")
    /\ IF req.csr_file.pem_ok
          THEN resp' = [resp EXCEPT !.csr = csr_from_pem_bytes(req.csr_file),
                                    !.pc = "load_ca"]
          ELSE resp' = [resp EXCEPT !.out = Err("InvalidCsr"), !.pc = "done"]
    /\ UNCHANGED <<mainVars, req>>

\* sign_csr entered with the caller's arguments
DirectArgs ==
    /\ Issuing("direct", "entry")
    /\ resp' = [resp EXCEPT !.csr = req.csr_arg, !.days = req.days_arg,
                            !.ca = [cert |-> req.ca_cert, key |-> req.ca_key],
                            !.pc = "sign"]
    /\ UNCHANGED <<mainVars, req>>

\* IntermediateCA::load with an unencrypted key: load_cert, load_private_key(None),
\* Ok(Self { key, cert, .. })
LoadCA ==
    /\ req.fn = "issue" /\ req.path \in {"batch", "single", "upload"} /\ resp.pc = "load_ca"
    /\ resp' = [resp EXCEPT !.ca = [cert |-> req.ca_cert, key |-> req.ca_key],
                            !.pc = IF req.path = "upload" THEN "sign" ELSE "create_csr"]
    /\ UNCHANGED <<mainVars, req>>

\* process_certificate: the request is built from the key generated for it
CreateCsrCall ==
    /\ req.fn = "issue" /\ req.path \in {"batch", "single"} /\ resp.pc = "create_csr"
    /\ resp' = [resp EXCEPT !.csr = create_csr(req.name, req.gen_key), !.pc = "sign"]
    /\ UNCHANGED <<mainVars, req>>

\* sign_csr(&csr, ca.cert(), ca.key(), days) on each of the paths
SignCsrCall ==
    /\ req.fn = "issue" /\ resp.pc = "sign"
    /\ \E tick \in 0..MaxTick, serial \in Serials, lib_ok \in BOOLEAN :
         resp' = [resp EXCEPT
                    !.out = sign_csr(resp.csr, resp.ca.cert, resp.ca.key, resp.days,
                                     tick, serial, lib_ok),
                    !.pc = "done"]
    /\ UNCHANGED <<mainVars, req>>

\* one call of load_private_key
LoadPrivateKeyCall ==
    /\ req.fn = "load_private_key" /\ resp.pc = "entry"
    /\ resp' = [resp EXCEPT !.out = load_private_key(req.bytes, req.password, req.readable),
                            !.pc = "done"]
    /\ UNCHANGED <<mainVars, req>>

\* one call of SanEntry::parse
SanParseCall ==
    /\ req.fn = "SanEntry::parse" /\ resp.pc = "entry"
    /\ resp' = [resp EXCEPT !.san = parse(req.text), !.pc = "done"]
    /\ UNCHANGED <<mainVars, req>>

\* one call of SanEntry::parse_multiple
SanParseMultipleCall ==
    /\ req.fn = "SanEntry::parse_multiple" /\ resp.pc = "entry"
    /\ resp' = [resp EXCEPT !.san = parse_multiple(req.text), !.pc = "done"]
    /\ UNCHANGED <<mainVars, req>>

CallNext ==
    \/ BatchDays
    \/ SingleDays
    \/ UploadForm
    \/ UploadParseCsr
    \/ DirectArgs
    \/ LoadCA
    \/ CreateCsrCall
    \/ SignCsrCall
    \/ LoadPrivateKeyCall
    \/ SanParseCall
    \/ SanParseMultipleCall

CallSpec == CallInit /\ [][CallNext]_vars

Issued == req.fn = "issue" /\ resp.pc = "done" /\ resp.out.tag = "Ok"
\* the failure kind with which the loader reports a key it could not unlock
DecryptionFailed == "CaKeyUnlockFailed"

\* C16: a certificate is issued only for a request whose self-signature verifies under
\* its own public key, on the batch path and on the upload path.
C16_CsrSignatureChecked ==
    Issued => resp.csr.sig_ok

\* C17: every certificate that sign_csr returns has not_before strictly before
\* not_after, whatever validity_days the caller passed, 0 included.
C17_ValidityWindowNotEmpty ==
    Issued => Before(resp.out.cert.not_before, resp.out.cert.not_after)

\* C18: the certificate sign_csr returns has the CA certificate's subject as issuer, the
\* request's subject as subject and the request's public key as public key, and is
\* signed with the CA key.
C18_FieldsDerived ==
    Issued =>
      /\ resp.out.cert.issuer = resp.ca.cert.subject
      /\ resp.out.cert.subject = resp.csr.subject
      /\ resp.out.cert.pubkey = resp.csr.pubkey
      /\ resp.out.cert.signed_by = resp.ca.key

\* sign_csr was called with a request for host2 whose key is neither the CA
\* certificate's nor the CA's private key, and has returned a certificate
C18_Witness ==
    /\ Issued /\ req.path = "direct"
    /\ resp.out.cert.subject = "host2" /\ resp.out.cert.issuer = CaSubject
    /\ resp.out.cert.pubkey # resp.ca.cert.pubkey
    /\ resp.out.cert.pubkey # resp.ca.key

\* C19: a certificate is issued only by a CA whose certificate carries the public key of
\* the private key that was loaded with it.
C19_CaMaterialConsistent ==
    Issued => resp.ca.cert.pubkey = resp.ca.key

\* C20: load_private_key on encrypted bytes without a password or with a wrong one fails
\* with the decryption-failed kind, and on bytes that are no key container it fails with
\* another kind.
C20_FailureKinds ==
    (req.fn = "load_private_key" /\ resp.pc = "done" /\ req.readable) =>
      /\ (req.bytes = "encrypted" /\ req.password \in {"none", "wrong"}) =>
            resp.out = Err(DecryptionFailed)
      /\ req.bytes = "garbage" =>
            resp.out.tag = "Err" /\ resp.out.err # DecryptionFailed

(* ---- key files written by a job, read back ---- *)

\* the PEM text a key file holds
KeyPem(content) ==
    CASE content = "key_encrypted" -> "encrypted"
      [] content = "key_plain" -> "plain"
      [] OTHER -> "garbage"

\* is_key_encrypted: the text contains the marker "ENCRYPTED"
is_key_encrypted(bytes) == bytes = "encrypted"

\* C21: when process_certificate runs with password_protect, every private key file of an
\* identifier, working and published, is an encrypted PEM: is_key_encrypted says so and
\* load_private_key opens it with the password that was given.
C21_PasswordNeverDropped ==
    \A i \in Positions : \A k \in {"work_key", "out_key"} :
      (cfg.password_protect /\ FileOf(k, i) # NoFile) =>
        /\ is_key_encrypted(KeyPem(FileOf(k, i).content))
        /\ load_private_key(KeyPem(FileOf(k, i).content), "right", TRUE).tag = "Ok"
        /\ load_private_key(KeyPem(FileOf(k, i).content), "none", TRUE).tag = "Err"

\* a job with password_protect has returned Ok on a fresh disk: both its keys are there
C21_Witness ==
    \E i \in Positions :
      /\ cfg.password_protect /\ prior = "none" /\ job[i].pc = "ok"
      /\ FileOf("work_key", i).content = "key_encrypted"
      /\ FileOf("out_key", i).content = "key_encrypted"

\* the entry kind a text before the ':' names, whatever its casing; "none" for any other text
KindOf(kind) ==
    CASE kind \in Casings(<<"D", "N", "S">>) -> "Dns"
      [] kind \in Casings(<<"I", "P">>) -> "Ip"
      [] kind \in Casings(<<"E", "M", "A", "I", "L">>) -> "Email"
      [] OTHER -> "none"

\* what the text asks for: split at the first ':' only, the kind matched without regard to
\* case against DNS, IP and EMAIL, the value everything after that ':' unchanged; a text
\* without ':' or of another kind is an error
Expected(text) ==
    IF \A k \in 1..Len(text) : text[k] # ":" THEN "Err"
    ELSE LET p == CHOOSE k \in 1..Len(text) :
                      text[k] = ":" /\ \A q \in 1..(k - 1) : text[q] # ":"
             kind == SubSeq(text, 1, p - 1)
             value == SubSeq(text, p + 1, Len(text)) IN
         IF KindOf(kind) = "none" THEN "Err"
         ELSE <<[variant |-> KindOf(kind), value |-> value]>>

\* C22: SanEntry::parse splits its input at the first ':' only, matches the kind
\* case-insensitively against exactly DNS, IP and EMAIL, and returns the entry of that kind
\* with the value unchanged; an input without ':' or of any other kind is an
\* InvalidSanFormat error, never an entry of a default kind.
C22_ParseSplitsAtFirstColon ==
    (req.fn = "SanEntry::parse" /\ resp.pc = "done") =>
        IF Expected(req.text) = "Err"
        THEN resp.san.tag = "Err" /\ resp.san.entries = <<>>
        ELSE resp.san.tag = "Ok" /\ resp.san.entries = Expected(req.text)

\* a lower-case kind with a value that itself holds a ':' and an upper-case letter was parsed
C22_Witness ==
    /\ req.fn = "SanEntry::parse" /\ resp.pc = "done"
    /\ req.text = <<"d", "n", "s", ":", ":", "A">>
    /\ resp.san.tag = "Ok"

\* an input of an unknown kind was refused
C22_WitnessRefused ==
    /\ req.fn = "SanEntry::parse" /\ resp.pc = "done"
    /\ req.text = <<"U", "R", "I", ":", "a">>
    /\ resp.san.tag = "Err"

\* C23: SanEntry::parse_multiple on a comma-joined list of n valid tokens returns exactly n
\* entries, the i-th being the parse of the i-th token; if any token is invalid the whole
\* call fails and returns no partial list.
C23_ListParsedTokenwise ==
    (req.fn = "SanEntry::parse_multiple" /\ resp.pc = "done" /\ Len(req.tokens) >= 1) =>
        IF \A k \in 1..Len(req.tokens) : parse(req.tokens[k]).tag = "Ok"
        THEN /\ resp.san.tag = "Ok"
             /\ Len(resp.san.entries) = Len(req.tokens)
             /\ \A k \in 1..Len(req.tokens) :
                    resp.san.entries[k] = parse(req.tokens[k]).entries[1]
        ELSE resp.san.tag = "Err" /\ resp.san.entries = <<>>

\* C24: the decrypted CA key temporary file never holds key bytes while its mode is anything
\* other than owner-only read/write: whenever a step leaves key bytes in the file, the file
\* existed before that step with mode 0600 and has mode 0600 after it.
C24_OwnerOnlyBeforeKeyBytes ==
    [][\A t \in tmpFiles' :
          t.content = "ca_key_plain" =>
            /\ t.mode = TempFileMode
            /\ \E u \in tmpFiles : u.id = t.id /\ u.mode = TempFileMode]_vars

\* the decrypted key has been written and the explicit chmod has not run yet
C24_Witness ==
    /\ pc = "unlock_chmod"
    /\ \E t \in tmpFiles : t.id = temp_file /\ t.content = "ca_key_plain"

\* the error kinds that report a failed file-system call
FsErrorKinds == {"IoError", "FileReadFailed", "FileWriteFailed"}

\* C25: every file-system failure inside an issuance job or the CA load produces an error
\* value that carries the path it failed on.
C25_FsErrorsCarryPath ==
    /\ \A i \in Positions : job[i].err.kind \in FsErrorKinds => job[i].err.path # <<>>
    /\ (ret.tag = "Err" /\ ret.err.kind \in FsErrorKinds) => ret.err.path # <<>>

\* the BatchResult the jobs' outcomes determine, whatever the mode: the counts of succeeded
\* and failed positions, and one entry per failed position in increasing position
RECURSIVE ErrorsFrom(_)
ErrorsFrom(i) ==
    IF i > N THEN <<>>
    ELSE IF job[i].pc = "failed"
         THEN <<[name |-> certNames[i], message |-> to_string(job[i].err)]>> \o ErrorsFrom(i + 1)
         ELSE ErrorsFrom(i + 1)
ResultOfOutcomes ==
    [successful |-> Cardinality({i \in Positions : job[i].pc = "ok"}),
     failed |-> Cardinality(FailedPositions),
     errors |-> ErrorsFrom(1)]

\* C26: for the same submitted list and the same per-identifier outcomes, parallel mode
\* returns the same BatchResult as sequential mode: in either mode the result is the one
\* function of the outcomes, with equal counts and the errors in input order of the failed
\* identifiers, whatever order the jobs completed in.
C26_ParallelSameAsSequential ==
    BatchOk => ret.result = ResultOfOutcomes

\* a parallel batch of two has returned, both jobs failed, each with its own error
C26_Witness ==
    /\ BatchOk /\ cfg.parallel /\ N = 2 /\ poolThreads = 2
    /\ job[1].pc = "failed" /\ job[2].pc = "failed" /\ job[1].err # job[2].err
    /\ Len(ret.result.errors) = 2

\* C27: in a parallel batch (identifiers pairwise distinct, output directory apart from the
\* working directories) no two jobs write, copy to or set permissions on the same path:
\* every step that changes a file is a step of the one running job whose identifier the
\* path carries, and it changes no other job. So a job's files are the same under every
\* interleaving: a job that returned Ok left exactly the files of a run on its own.
C27_JobsWriteDisjointPaths ==
    /\ [][(pc = "par") =>
            \A key \in DOMAIN files :
              files'[key] # files[key] =>
                \E i \in Positions :
                  /\ key[2] = certNames[i]
                  /\ Running(i) /\ job'[i] # job[i]
                  /\ \A j \in Positions \ {i} : job'[j] = job[j]
         ]_vars
    /\ []((cfg.parallel /\ N > 1) =>
            \A i \in Positions :
              job[i].pc = "ok" =>
                \A k \in FileKinds : FileOf(k, i) = CompleteRunFile(k, cfg.password_protect))

\* two jobs are under way on two pool threads at once, each with its key file written
C27_Witness ==
    /\ pc = "par" /\ N = 2 /\ poolThreads = 2
    /\ Running(1) /\ Running(2)
    /\ FileOf("work_key", 1) # NoFile /\ FileOf("work_key", 2) # NoFile
    /\ job[1].pc = "copy_key" /\ job[2].pc = "chmod_out_key"

\* C28: batch_process runs jobs on the worker pool if and only if config.batch.parallel is
\* true and more than one identifier was submitted; otherwise jobs run strictly one at a
\* time in input order, job i+1 starting only after job i has succeeded or failed.
C28_PoolOnlyWhenParallelAndMany ==
    cfg.entry = "batch" =>
      /\ pc \in {"par", "collected"} => (cfg.parallel /\ N > 1)
      /\ pc = "seq" => ~(cfg.parallel /\ N > 1)
      /\ (\E i \in Positions : started[i] > 0) => pc \in {"par", "collected", "seq", "done"}
      /\ ~(cfg.parallel /\ N > 1) =>
            /\ RunningCount <= 1
            /\ \A i \in Positions :
                  started[i] > 0 => \A j \in 1..(i - 1) : Terminal(job[j].pc)

\* parallel is off, the pool has two threads, and the second of two jobs is under way
\* after the first one failed
C28_Witness ==
    /\ cfg.entry = "batch" /\ ~cfg.parallel /\ N = 2 /\ poolThreads = 2
    /\ pc = "seq" /\ job[1].pc = "failed" /\ Running(2)

\* parallel is on but only one identifier was submitted: its job runs in the loop
C28_WitnessOneName ==
    /\ cfg.entry = "batch" /\ cfg.parallel /\ N = 1 /\ poolThreads = 2
    /\ pc = "seq" /\ Running(1)

\* the positions of IntermediateCA::load from the passphrase prompt to the end of unlock_ca_key
UnlockSteps == {"ca_prompt", "unlock_load_key", "unlock_tempfile", "unlock_write", "unlock_chmod"}
\* the positions of IntermediateCA::load at which the key file is about to be read
KeySteps == {"is_key_encrypted", "load_plain_key"} \cup UnlockSteps

\* C29: when the CA key file carries no encryption marker, loading the CA asks for no
\* passphrase and creates no temporary file: the load never passes through the prompt or
\* the unlock, the loaded CA holds no temp-file handle, and no decrypted copy exists on disk.
C29_PlainKeyNoPromptNoTempFile ==
    ~cfg.ca_key_encrypted =>
      /\ pc \notin UnlockSteps
      /\ temp_file = 0 /\ tmpFiles = {}
      /\ decrypts = 0
      /\ ca.temp = 0

\* a CA with an unencrypted key was loaded and a job signed with it
C29_Witness ==
    /\ ~cfg.ca_key_encrypted /\ ca.state = "loaded"
    /\ \E i \in Positions : job[i].pc = "ok"

\* a failure of load_cert: the read of the certificate file, or its parse
CertFailure(e) ==
    \/ e = [kind |-> "FileReadFailed", path |-> <<"ca_cert">>]
    \/ e = [kind |-> "CertParseError", path |-> <<>>]

\* C30: loading the CA reads and parses the CA certificate before it touches the key: the
\* key is reached only through a successful load_cert, and if the certificate cannot be
\* read or parsed the load fails at once, the key file not inspected, no passphrase asked
\* for, nothing decrypted and no temporary file created.
C30_CertBeforeKey ==
    /\ [][/\ pc' \in KeySteps => pc \in KeySteps \cup {"load_cert"}
          /\ (pc = "load_cert" /\ pc' # "load_cert") =>
                \/ pc' = "is_key_encrypted" /\ ret' = ret
                \/ pc' = "done" /\ ret'.tag = "Err" /\ CertFailure(ret'.err)
          /\ (pc # "load_cert" /\ pc' = "done" /\ ret'.tag = "Err") => ~CertFailure(ret'.err)
         ]_vars
    /\ []((ret.tag = "Err" /\ CertFailure(ret.err)) =>
            /\ pc = "done" /\ ca.state = "none"
            /\ decrypts = 0 /\ temp_file = 0 /\ tmpFiles = {}
            /\ \A i \in Positions : started[i] = 0)

\* the certificate of a CA whose key is encrypted could not be parsed
C30_Witness ==
    /\ cfg.ca_key_encrypted /\ pc = "done"
    /\ ret.tag = "Err" /\ ret.err.kind = "CertParseError"
====
